---- MODULE Spec2Model ----
(***************************************************************************)
(* Semantic analysis of Nimble programs (nimblesemantics.py): the two      *)
(* listeners DefineScopesAndSymbols and InferTypesAndCheckConstraints      *)
(* walked one after the other over the same parse tree.                    *)
(*                                                                         *)
(* The parse tree is the input.  It is held as the sequence of listener    *)
(* events of its depth-first walk; a node is named by the position of its  *)
(* exit event, and an event names its child expressions by how far back    *)
(* their exit events lie.                                                  *)
(***************************************************************************)
EXTENDS Integers, Sequences, FiniteSets, TLC

\* Bounds of the input programs.
MaxDepth == 2
MaxStmts == 2
MaxVars  == 2
MaxFuncs == 2

VARIABLES tree, pass, pos, current_scope, scopes, type_of, error_log, raised, cursor1

vars == <<tree, pass, pos, current_scope, scopes, type_of, error_log, raised, cursor1>>

-----------------------------------------------------------------------------
(* symboltable: types, symbols and scopes.                                 *)

PrimitiveType ==
    [Int    |-> [tag |-> "PrimitiveType", name |-> "Int"],
     Bool   |-> [tag |-> "PrimitiveType", name |-> "Bool"],
     String |-> [tag |-> "PrimitiveType", name |-> "String"],
     Void   |-> [tag |-> "PrimitiveType", name |-> "Void"],
     ERROR  |-> [tag |-> "PrimitiveType", name |-> "ERROR"]]

FunctionType(parameter_types, return_type) ==
    [tag |-> "FunctionType", parameter_types |-> parameter_types, return_type |-> return_type]

Symbol(name, type, is_param) ==
    [tag |-> "Symbol", name |-> name, type |-> type, is_param |-> is_param]

\* The token node a context's TYPE() accessor returns.
TerminalNode(text) == [tag |-> "TerminalNode", text |-> text]

\* Python's None, as a value and as a scope reference.
NoneValue == [tag |-> "None"]
None == 0

\* Truth value of a Python object in a condition: None is false, an enum member
\* or a plain object is true.
Truthy(v) == v # NoneValue

\* Scopes live in a heap (a sequence); a scope reference is its index.
global_scope == 1

Scope(name, return_type, enclosing_scope) ==
    [name |-> name, return_type |-> return_type, enclosing_scope |-> enclosing_scope,
     child_scopes |-> <<>>, symbols |-> <<>>]

create_child_scope(heap, s, name, return_type) ==
    Append([heap EXCEPT ![s].child_scopes = Append(@, Len(heap) + 1)],
           Scope(name, return_type, s))

has_child_scope(heap, s, name) ==
    \E i \in 1..Len(heap[s].child_scopes) : heap[heap[s].child_scopes[i]].name = name

child_scope_named(heap, s, name) ==
    LET cs == heap[s].child_scopes
    IN  cs[CHOOSE i \in 1..Len(cs) : heap[cs[i]].name = name]

resolve_locally(heap, s, name) ==
    LET syms == heap[s].symbols
    IN  IF \E i \in 1..Len(syms) : syms[i].name = name
        THEN syms[CHOOSE i \in 1..Len(syms) : syms[i].name = name]
        ELSE NoneValue

\* A dictionary store: a new name is appended, a known name keeps its place.
define(heap, s, name, type, is_param) ==
    LET syms == heap[s].symbols
        sym  == Symbol(name, type, is_param)
    IN  IF \E i \in 1..Len(syms) : syms[i].name = name
        THEN [heap EXCEPT ![s].symbols =
                 [i \in 1..Len(syms) |-> IF syms[i].name = name THEN sym ELSE syms[i]]]
        ELSE [heap EXCEPT ![s].symbols = Append(@, sym)]

IsParam(sym) == sym.is_param

parameters(heap, s) == SelectSeq(heap[s].symbols, IsParam)

-----------------------------------------------------------------------------
(* errorlog                                                                *)

Category ==
    [UNDEFINED_NAME |-> "UNDEFINED_NAME", DUPLICATE_NAME |-> "DUPLICATE_NAME",
     INVALID_CALL |-> "INVALID_CALL", INVALID_RETURN |-> "INVALID_RETURN",
     ASSIGN_TO_WRONG_TYPE |-> "ASSIGN_TO_WRONG_TYPE",
     CONDITION_NOT_BOOL |-> "CONDITION_NOT_BOOL",
     UNPRINTABLE_EXPRESSION |-> "UNPRINTABLE_EXPRESSION",
     INVALID_NEGATION |-> "INVALID_NEGATION", INVALID_BINARY_OP |-> "INVALID_BINARY_OP"]

\* ErrorLog.add(ctx, category, message): the message text is not kept.
add(log, ctx, category) == Append(log, [node |-> ctx, category |-> category])

-----------------------------------------------------------------------------
(* The parse tree, as the events of its walk.                              *)
(*   h      the listener method the walker calls (enterX / exitX)          *)
(*   id     ctx.ID().getText(), "" when the node has no identifier         *)
(*   ty     ctx.TYPE().getText(), "" when ctx.TYPE() is None               *)
(*   op     ctx.op.text                                                    *)
(*   kids   ctx.expr(): for each child expression, how many events back    *)
(*          its exit event lies                                            *)
(*   params ctx.parameterDef(): the (id, ty) of each parameter             *)

Ev(h, id, ty, op, kids, params) ==
    [h |-> h, id |-> id, ty |-> ty, op |-> op, kids |-> kids, params |-> params]

IntLiteral    == << Ev("exitIntLiteral", "", "", "", <<>>, <<>>) >>
StringLiteral == << Ev("exitStringLiteral", "", "", "", <<>>, <<>>) >>
BoolLiteral   == << Ev("exitBoolLiteral", "", "", "", <<>>, <<>>) >>
Variable(id)  == << Ev("exitVariable", id, "", "", <<>>, <<>>) >>
Neg(op, e)    == e \o << Ev("exitNeg", "", "", op, <<1>>, <<>>) >>
Parens(e)     == e \o << Ev("exitParens", "", "", "", <<1>>, <<>>) >>

BinaryHandler(op) ==
    IF op \in {"*", "/"} THEN "exitMulDiv"
    ELSE IF op \in {"+", "-"} THEN "exitAddSub"
    ELSE "exitCompare"

Binary(op, a, b) == a \o b \o << Ev(BinaryHandler(op), "", "", op, <<Len(b) + 1, 1>>, <<>>) >>

VarDec(id, ty)          == << Ev("exitVarDec", id, ty, "", <<>>, <<>>) >>
VarDecInit(id, ty, e)   == e \o << Ev("exitVarDec", id, ty, "", <<1>>, <<>>) >>
Assignment(id, e)       == e \o << Ev("exitAssignment", id, "", "", <<1>>, <<>>) >>
PrintStmt(e)            == e \o << Ev("exitPrint", "", "", "", <<1>>, <<>>) >>
ReturnStmt              == << Ev("exitReturn", "", "", "", <<>>, <<>>) >>
ReturnExpr(e)           == e \o << Ev("exitReturn", "", "", "", <<1>>, <<>>) >>
IfStmt(e, block)        == e \o block \o << Ev("exitIf", "", "", "", <<Len(block) + 1>>, <<>>) >>
WhileStmt(e, block)     == e \o block \o << Ev("exitWhile", "", "", "", <<Len(block) + 1>>, <<>>) >>
FuncCall0(id)           == << Ev("exitFuncCall", id, "", "", <<>>, <<>>) >>
FuncCall1(id, a)        == a \o << Ev("exitFuncCall", id, "", "", <<1>>, <<>>) >>
FuncCall2(id, a, b)     == a \o b \o << Ev("exitFuncCall", id, "", "", <<Len(b) + 1, 1>>, <<>>) >>
FuncDef(id, params, ty, body) ==
    << Ev("enterFuncDef", id, ty, "", <<>>, params) >> \o body
        \o << Ev("exitFuncDef", id, ty, "", <<>>, params) >>
Main(body) ==
    << Ev("enterMain", "", "", "", <<>>, <<>>) >> \o body
        \o << Ev("exitMain", "", "", "", <<>>, <<>>) >>

ParameterDef(id, ty) == [id |-> id, ty |-> ty]

-----------------------------------------------------------------------------
(* The input programs: trees the parser can produce.  A declared type is   *)
(* one of Int, Bool, String (the TYPE token), declarations precede the     *)
(* statements of a body, functions precede the entry block and have        *)
(* distinct names.                                                         *)

RECURSIVE Concat(_)
Concat(ss) == IF ss = <<>> THEN <<>> ELSE Head(ss) \o Concat(Tail(ss))

\* Sequences of at most n elements of S.
SeqsUpTo(S, n) == UNION { [1..k -> S] : k \in 0..n }

TypeNames == {"Int", "Bool", "String"}
Literals  == {IntLiteral, BoolLiteral, StringLiteral}
UnaryOps  == {"-", "!"}
BinaryOps == {"*", "/", "+", "-", "==", "<", "<="}

\* An expression that is typed ERROR.
BadExpr == Neg("!", IntLiteral)

\* The operands of binary operators: one expression of each type, one typed
\* ERROR and one that is itself an operator.
Operands == Literals \cup {BadExpr, Neg("-", IntLiteral)}

Atoms ==
    Literals \cup {Variable("x")}
      \cup { Binary(op, a, b) : op \in BinaryOps, a \in Operands, b \in Operands }

\* An atom under at most d unary operators and parentheses.
RECURSIVE Exprs(_)
Exprs(d) ==
    IF d = 0 THEN Atoms
    ELSE LET S == Exprs(d - 1)
         IN  S \cup { Neg(op, e) : op \in UnaryOps, e \in S } \cup { Parens(e) : e \in S }

\* A bare expression, parsed with start rule 'expr' as testcases.py does.
ExprPrograms == Exprs(MaxDepth)

Stmts ==
    { PrintStmt(e) : e \in {IntLiteral, Variable("x"), BadExpr} }
      \cup { Assignment("x", e) : e \in {IntLiteral, BoolLiteral, Variable("y")} }
      \cup { Assignment("x", Neg("-", Variable("x"))), Assignment("x", Parens(Variable("x"))),
             Assignment("x", Binary("+", Variable("x"), Variable("y"))) }
      \cup { ReturnStmt, ReturnExpr(IntLiteral), ReturnExpr(BoolLiteral) }
      \cup { IfStmt(BoolLiteral, <<>>), IfStmt(IntLiteral, <<>>),
             IfStmt(BoolLiteral, PrintStmt(IntLiteral)) }
      \cup { WhileStmt(BoolLiteral, <<>>), WhileStmt(IntLiteral, <<>>),
             WhileStmt(BoolLiteral, ReturnStmt) }

\* Variable blocks of the entry block.
VarDecs ==
    { VarDec("x", ty) : ty \in TypeNames }
      \cup { VarDecInit("x", ty, e) : ty \in TypeNames, e \in {IntLiteral, Variable("x")} }
      \cup { VarDec("y", "Int"), VarDecInit("y", "Int", Variable("x")),
             VarDecInit("y", "Bool", Variable("x")) }

VarBlocks ==
    { <<>>, VarDec("x", "Int") \o VarDec("y", "Int"),
      VarDec("x", "Bool") \o VarDec("y", "String") }

\* Scripts without functions: up to MaxVars declarations with at most one
\* statement, or a plain variable block with up to MaxStmts statements.
MainPrograms ==
    { Main(Concat(vs) \o s) : vs \in SeqsUpTo(VarDecs, MaxVars),
                              s \in {<<>>, Assignment("x", BoolLiteral)} }
      \cup { Main(vb \o Concat(ss)) : vb \in VarBlocks, ss \in SeqsUpTo(Stmts, MaxStmts) }

\* Scripts with up to MaxFuncs functions.  The first function, f, varies in
\* parameters, return type and body; the functions after it are fixed.
FuncNames == <<"f", "g", "h", "k">>

ParamLists ==
    { <<>>, <<ParameterDef("a", "Int")>>, <<ParameterDef("a", "Bool")>>,
      <<ParameterDef("a", "Int"), ParameterDef("b", "Bool")>>,
      <<ParameterDef("a", "String"), ParameterDef("b", "Int")>> }

ReturnTypeNames == {""} \cup TypeNames

FuncBodies ==
    { <<>>, ReturnStmt, PrintStmt(Variable("a")), VarDec("x", "Int") \o Assignment("x", Variable("a")),
      VarDec("a", "Int"), VarDec("f", "Int"), FuncCall0("f") }
      \cup { ReturnExpr(e) : e \in Literals \cup {Variable("a"), BadExpr} }

FirstFuncDefs ==
    { FuncDef(FuncNames[1], ps, ty, b) : ps \in ParamLists, ty \in ReturnTypeNames, b \in FuncBodies }

OtherFuncDef(i) ==
    IF i % 2 = 0 THEN FuncDef(FuncNames[i], <<>>, "", <<>>)
    ELSE FuncDef(FuncNames[i], <<ParameterDef("a", "Int")>>, "Int", PrintStmt(Variable("a")))

RECURSIVE FuncDefSeqs(_)
FuncDefSeqs(n) ==
    IF n = 1 THEN FirstFuncDefs
    ELSE { fs \o OtherFuncDef(n) : fs \in FuncDefSeqs(n - 1) }

CallStmts ==
    { FuncCall0("f"), FuncCall1("f", IntLiteral), FuncCall1("f", BoolLiteral),
      FuncCall2("f", IntLiteral, BoolLiteral), FuncCall2("f", BoolLiteral, IntLiteral),
      FuncCall0("g"), FuncCall0("undefined") }

FuncMains ==
    { <<>> } \cup CallStmts
      \cup { ReturnStmt \o c : c \in {FuncCall0("f"), FuncCall1("f", IntLiteral), FuncCall0("undefined")} }
      \cup { VarDec("f", "Int") \o ReturnStmt \o Assignment("f", IntLiteral) }

FuncPrograms ==
    { fs \o Main(m) : fs \in UNION { FuncDefSeqs(n) : n \in 1..MaxFuncs }, m \in FuncMains }

Programs == ExprPrograms \cup MainPrograms \cup FuncPrograms

-----------------------------------------------------------------------------
(* The walk.  pass is the listener being walked (1: DefineScopesAndSymbols, *)
(* 2: InferTypesAndCheckConstraints), pos the next event, raised the       *)
(* exception that ended the walk ("none" while it runs).  cursor1 records  *)
(* the current scope of pass 1 after each of its events.                   *)

ctx == tree[pos]

\* The node ctx.expr(i - 1), or ctx.expr() of a node with a single expression.
Expr(i) == pos - ctx.kids[i]

At(p, h) == pass = p /\ raised = "none" /\ pos <= Len(tree) /\ ctx.h = h

Finished(p) == pass = p /\ raised = "none" /\ pos > Len(tree)

Raise(exc) ==
    /\ raised' = exc
    /\ UNCHANGED <<tree, pass, pos, current_scope, scopes, type_of, error_log, cursor1>>

\* A handler of pass 1 returns.
Return1(scope, heap, log) ==
    /\ current_scope' = scope
    /\ scopes' = heap
    /\ error_log' = log
    /\ cursor1' = Append(cursor1, scope)
    /\ pos' = pos + 1
    /\ UNCHANGED <<tree, pass, type_of, raised>>

\* A handler of pass 2 returns.
Return2(scope, heap, types, log) ==
    /\ current_scope' = scope
    /\ scopes' = heap
    /\ type_of' = types
    /\ error_log' = log
    /\ pos' = pos + 1
    /\ UNCHANGED <<tree, pass, raised, cursor1>>

Init ==
    /\ tree \in Programs
    /\ pass = 1
    /\ pos = 1
    /\ current_scope = global_scope
    /\ scopes = << Scope("$global", PrimitiveType.Void, None) >>
    /\ type_of = << >>
    /\ error_log = << >>
    /\ raised = "none"
    /\ cursor1 = << >>

-----------------------------------------------------------------------------
(* Pass 1: DefineScopesAndSymbols                                          *)

Define_enterMain ==
    /\ At(1, "enterMain")
    /\ Return1(Len(scopes) + 1,
               create_child_scope(scopes, current_scope, "$main", PrimitiveType.Void),
               error_log)

Define_exitMain ==
    /\ At(1, "exitMain")
    /\ Return1(scopes[current_scope].enclosing_scope, scopes, error_log)

Define_enterFuncDef ==
    /\ At(1, "enterFuncDef")
    /\ IF ctx.ty # ""
       THEN IF ctx.ty \in {"Int", "Bool", "String"}
            THEN Return1(Len(scopes) + 1,
                         create_child_scope(scopes, current_scope, ctx.id, PrimitiveType[ctx.ty]),
                         error_log)
            ELSE Return1(current_scope, scopes, error_log)
       ELSE Return1(Len(scopes) + 1,
                    create_child_scope(scopes, current_scope, ctx.id, PrimitiveType.Void),
                    error_log)

\* type_list: param.TYPE() of each parameter, the token nodes themselves.
type_list(params) == [i \in 1..Len(params) |-> TerminalNode(params[i].ty)]

Define_exitFuncDef ==
    /\ At(1, "exitFuncDef")
    /\ LET enclosing == scopes[current_scope].enclosing_scope
       IN  IF ctx.ty # ""
           THEN IF ctx.ty \in {"Int", "Bool", "String"}
                THEN Return1(enclosing,
                             define(scopes, enclosing, ctx.id,
                                    FunctionType(type_list(ctx.params), PrimitiveType[ctx.ty]),
                                    FALSE),
                             error_log)
                ELSE Raise("AttributeError")   \* ctx.expr() of a function definition
           ELSE Return1(enclosing,
                        define(scopes, current_scope, ctx.id,
                               FunctionType(type_list(ctx.params), PrimitiveType.Void),
                               FALSE),
                        error_log)

\* Every other event of pass 1 reaches NimbleListener's empty method.
Define_other ==
    /\ pass = 1 /\ raised = "none" /\ pos <= Len(tree)
    /\ ctx.h \notin {"enterMain", "exitMain", "enterFuncDef", "exitFuncDef"}
    /\ Return1(current_scope, scopes, error_log)

-----------------------------------------------------------------------------
(* Pass 2: InferTypesAndCheckConstraints                                   *)

\* InferTypesAndCheckConstraints.__init__, once the first walk is over.
Infer_init ==
    /\ Finished(1)
    /\ pass' = 2
    /\ pos' = 1
    /\ current_scope' = global_scope
    /\ UNCHANGED <<tree, scopes, type_of, error_log, raised, cursor1>>

Infer_enterMain ==
    /\ At(2, "enterMain")
    /\ IF current_scope = None THEN Raise("AttributeError")
       ELSE IF ~has_child_scope(scopes, current_scope, "$main") THEN Raise("KeyError")
       ELSE Return2(child_scope_named(scopes, current_scope, "$main"), scopes, type_of, error_log)

Infer_exitMain ==
    /\ At(2, "exitMain")
    /\ IF current_scope = None THEN Raise("AttributeError")
       ELSE Return2(scopes[current_scope].enclosing_scope, scopes, type_of, error_log)

Infer_enterFuncDef ==
    /\ At(2, "enterFuncDef")
    /\ IF current_scope = None THEN Raise("AttributeError")
       ELSE IF ~has_child_scope(scopes, current_scope, ctx.id) THEN Raise("KeyError")
       ELSE Return2(child_scope_named(scopes, current_scope, ctx.id), scopes, type_of, error_log)

\* The parameters, defined one after the other in scope s.
RECURSIVE DefineParameters(_, _, _)
DefineParameters(heap, s, params) ==
    IF params = <<>> THEN heap
    ELSE LET p == Head(params)
         IN  DefineParameters(
                 IF p.ty \in {"Int", "Bool", "String"}
                 THEN define(heap, s, p.id, PrimitiveType[p.ty], TRUE)
                 ELSE heap,
                 s, Tail(params))

Infer_exitFuncDef ==
    /\ At(2, "exitFuncDef")
    /\ IF current_scope = None THEN Raise("AttributeError")
       ELSE Return2(scopes[current_scope].enclosing_scope,
                    DefineParameters(scopes, current_scope, ctx.params),
                    type_of, error_log)

exitFuncCall ==
    /\ At(2, "exitFuncCall")
    /\ IF current_scope = None THEN Raise("AttributeError")
       ELSE LET params == << parameters(scopes, current_scope) >>
                nargs  == Len(ctx.kids)
                callee == child_scope_named(scopes, current_scope, ctx.id)
            IN  IF has_child_scope(scopes, current_scope, ctx.id)
                THEN IF nargs = 0 /\ Len(params) = 0
                     \* the type is set, the loop goes on and ends at line 176
                     THEN /\ raised' = "AttributeError"
                          /\ type_of' = (pos :> scopes[callee].return_type) @@ type_of
                          /\ UNCHANGED <<tree, pass, pos, current_scope, scopes, error_log, cursor1>>
                     ELSE IF nargs = Len(parameters(scopes, current_scope))
                     THEN IF Len(params) = 0
                          THEN Return2(current_scope, scopes,
                                       (pos :> scopes[callee].return_type) @@ type_of, error_log)
                          \* first round of the loop: type_of[ctx.expr(0)] != params[0].type
                          ELSE IF nargs = 0 THEN Raise("KeyError")
                          ELSE IF Expr(1) \notin DOMAIN type_of THEN Raise("KeyError")
                          ELSE Raise("AttributeError")
                     ELSE Raise("AttributeError")   \* line 176: ctx.expr() is a list
                ELSE Raise("AttributeError")        \* line 176: ctx.expr() is a list

exitReturn ==
    /\ At(2, "exitReturn")
    /\ IF current_scope = None THEN Raise("AttributeError")
       ELSE LET return_type == scopes[current_scope].return_type
                logged      == add(error_log, pos, Category.INVALID_RETURN)
                enclosing   == scopes[current_scope].enclosing_scope
            IN  IF ctx.kids # <<>>
                THEN IF return_type = PrimitiveType.Int /\ Expr(1) \notin DOMAIN type_of
                     THEN Raise("KeyError")
                     ELSE IF ~(return_type = PrimitiveType.Int
                               /\ type_of[Expr(1)] = PrimitiveType.Int)
                     THEN Return2(enclosing, scopes, type_of, logged)
                     ELSE IF ~(return_type = PrimitiveType.Bool
                               /\ type_of[Expr(1)] = PrimitiveType.Bool)
                     THEN Return2(enclosing, scopes, type_of, logged)
                     ELSE IF ~(return_type = PrimitiveType.String
                               /\ type_of[Expr(1)] = PrimitiveType.String)
                     THEN Return2(enclosing, scopes, type_of, logged)
                     ELSE Return2(enclosing, scopes, type_of, error_log)
                ELSE IF ~(return_type = PrimitiveType.Void)
                     THEN Return2(enclosing, scopes, type_of, logged)
                     ELSE Return2(enclosing, scopes, type_of, error_log)

\* exitVarDec, were it to define the symbol again after logging the duplicate.
exitVarDec_Redefines ==
    /\ At(2, "exitVarDec")
    /\ IF current_scope = None THEN Raise("AttributeError")
       ELSE IF ctx.ty \notin {"Int", "String", "Bool"}
       THEN IF pos \notin DOMAIN type_of THEN Raise("KeyError")
            ELSE Return2(current_scope, scopes, type_of,
                         add(error_log, pos, Category.ASSIGN_TO_WRONG_TYPE))
       ELSE LET known   == resolve_locally(scopes, current_scope, ctx.id) # NoneValue
                log     == IF known THEN add(error_log, pos, Category.DUPLICATE_NAME)
                           ELSE error_log
                defined == define(scopes, current_scope, ctx.id, PrimitiveType[ctx.ty], FALSE)
                x       == resolve_locally(defined, current_scope, ctx.id)
            IN  IF ctx.kids # <<>> /\ ~known /\ x.type # type_of[Expr(1)]
                THEN Return2(current_scope, defined, type_of,
                             add(log, pos, Category.ASSIGN_TO_WRONG_TYPE))
                ELSE Return2(current_scope, defined, type_of, log)

exitVarDec ==
    /\ At(2, "exitVarDec")
    /\ IF current_scope = None THEN Raise("AttributeError")
       ELSE IF resolve_locally(scopes, current_scope, ctx.id) = NoneValue
       THEN IF ctx.ty \in {"Int", "String", "Bool"}
            THEN LET defined == define(scopes, current_scope, ctx.id, PrimitiveType[ctx.ty], FALSE)
                     x       == resolve_locally(defined, current_scope, ctx.id)
                 IN  IF ctx.kids # <<>>
                     THEN IF Expr(1) \notin DOMAIN type_of
                          THEN /\ raised' = "KeyError"
                               /\ scopes' = defined
                               /\ UNCHANGED <<tree, pass, pos, current_scope, type_of,
                                              error_log, cursor1>>
                          ELSE IF x.type # type_of[Expr(1)]
                          THEN Return2(current_scope, defined, type_of,
                                       add(error_log, pos, Category.ASSIGN_TO_WRONG_TYPE))
                          ELSE Return2(current_scope, defined, type_of, error_log)
                     ELSE Return2(current_scope, defined, type_of, error_log)
            \* the message reads type_of[ctx] before the fault is added
            ELSE IF pos \notin DOMAIN type_of THEN Raise("KeyError")
            ELSE Return2(current_scope, scopes, type_of,
                         add(error_log, pos, Category.ASSIGN_TO_WRONG_TYPE))
       ELSE Return2(current_scope, scopes, type_of,
                    add(error_log, pos, Category.DUPLICATE_NAME))

exitAssignment ==
    /\ At(2, "exitAssignment")
    /\ IF current_scope = None THEN Raise("AttributeError")
       ELSE IF resolve_locally(scopes, current_scope, ctx.id) = NoneValue
       THEN Return2(current_scope, scopes, (pos :> PrimitiveType.ERROR) @@ type_of,
                    add(error_log, pos, Category.UNDEFINED_NAME))
       ELSE LET x == resolve_locally(scopes, current_scope, ctx.id)
            IN  IF Expr(1) \notin DOMAIN type_of THEN Raise("KeyError")
                ELSE IF x.type # type_of[Expr(1)]
                THEN Return2(current_scope, scopes, (pos :> PrimitiveType.ERROR) @@ type_of,
                             add(error_log, pos, Category.ASSIGN_TO_WRONG_TYPE))
                ELSE Return2(current_scope, scopes, type_of, error_log)

exitWhile ==
    /\ At(2, "exitWhile")
    /\ IF Expr(1) \notin DOMAIN type_of THEN Raise("KeyError")
       ELSE IF type_of[Expr(1)] # PrimitiveType.Bool
       THEN Return2(current_scope, scopes, (pos :> PrimitiveType.ERROR) @@ type_of,
                    add(error_log, pos, Category.CONDITION_NOT_BOOL))
       ELSE Return2(current_scope, scopes, type_of, error_log)

exitIf ==
    /\ At(2, "exitIf")
    /\ IF Expr(1) \notin DOMAIN type_of THEN Raise("KeyError")
       ELSE IF type_of[Expr(1)] # PrimitiveType.Bool
       THEN Return2(current_scope, scopes, (pos :> PrimitiveType.ERROR) @@ type_of,
                    add(error_log, pos, Category.CONDITION_NOT_BOOL))
       ELSE Return2(current_scope, scopes, type_of, error_log)

exitPrint ==
    /\ At(2, "exitPrint")
    /\ IF Expr(1) \notin DOMAIN type_of THEN Raise("KeyError")
       ELSE IF type_of[Expr(1)] = PrimitiveType.ERROR \/ Truthy(PrimitiveType.Void)
       THEN Return2(current_scope, scopes, (pos :> PrimitiveType.ERROR) @@ type_of,
                    add(error_log, pos, Category.UNPRINTABLE_EXPRESSION))
       ELSE Return2(current_scope, scopes, type_of, error_log)

-----------------------------------------------------------------------------
(* Pass 2: expressions                                                     *)

Typed(type) == Return2(current_scope, scopes, (pos :> type) @@ type_of, error_log)

Faulted(category) ==
    Return2(current_scope, scopes, (pos :> PrimitiveType.ERROR) @@ type_of,
            add(error_log, pos, category))

exitIntLiteral ==
    /\ At(2, "exitIntLiteral")
    /\ Typed(PrimitiveType.Int)

\* exitNeg, were it to pass an operand typed ERROR on without a fault.
exitNeg_SilentOnError ==
    /\ At(2, "exitNeg")
    /\ IF Expr(1) \notin DOMAIN type_of THEN Raise("KeyError")
       ELSE IF type_of[Expr(1)] = PrimitiveType.ERROR
       THEN Typed(PrimitiveType.ERROR)
       ELSE IF ctx.op = "-" /\ type_of[Expr(1)] = PrimitiveType.Int
       THEN Typed(PrimitiveType.Int)
       ELSE IF ctx.op = "!" /\ type_of[Expr(1)] = PrimitiveType.Bool
       THEN Typed(PrimitiveType.Bool)
       ELSE Faulted(Category.INVALID_NEGATION)

exitNeg ==
    /\ At(2, "exitNeg")
    /\ IF Expr(1) \notin DOMAIN type_of THEN Raise("KeyError")
       ELSE IF ctx.op = "-" /\ type_of[Expr(1)] = PrimitiveType.Int
       THEN Typed(PrimitiveType.Int)
       ELSE IF ctx.op = "!" /\ type_of[Expr(1)] = PrimitiveType.Bool
       THEN Typed(PrimitiveType.Bool)
       ELSE Faulted(Category.INVALID_NEGATION)

exitParens ==
    /\ At(2, "exitParens")
    /\ IF Expr(1) \notin DOMAIN type_of THEN Raise("KeyError")
       ELSE Typed(type_of[Expr(1)])

exitMulDiv ==
    /\ At(2, "exitMulDiv")
    /\ IF Expr(1) \notin DOMAIN type_of THEN Raise("KeyError")
       ELSE IF type_of[Expr(1)] = PrimitiveType.Int /\ Expr(2) \notin DOMAIN type_of
       THEN Raise("KeyError")
       ELSE IF /\ type_of[Expr(1)] = PrimitiveType.Int
               /\ type_of[Expr(2)] = PrimitiveType.Int
               /\ (ctx.op = "*" \/ ctx.op = "/")
       THEN Typed(PrimitiveType.Int)
       ELSE Faulted(Category.INVALID_BINARY_OP)

exitAddSub ==
    /\ At(2, "exitAddSub")
    /\ IF Expr(1) \notin DOMAIN type_of THEN Raise("KeyError")
       ELSE IF type_of[Expr(1)] \in {PrimitiveType.Int, PrimitiveType.String}
               /\ Expr(2) \notin DOMAIN type_of
       THEN Raise("KeyError")
       ELSE IF /\ type_of[Expr(1)] = PrimitiveType.Int
               /\ type_of[Expr(2)] = PrimitiveType.Int
               /\ (ctx.op = "+" \/ ctx.op = "-")
       THEN Typed(PrimitiveType.Int)
       ELSE IF /\ type_of[Expr(1)] = PrimitiveType.String
               /\ type_of[Expr(2)] = PrimitiveType.String
               /\ ctx.op = "+"
       THEN Typed(PrimitiveType.String)
       ELSE Faulted(Category.INVALID_BINARY_OP)

exitCompare ==
    /\ At(2, "exitCompare")
    /\ IF Expr(1) \notin DOMAIN type_of THEN Raise("KeyError")
       ELSE IF type_of[Expr(1)] \in {PrimitiveType.Bool, PrimitiveType.Int}
               /\ Expr(2) \notin DOMAIN type_of
       THEN Raise("KeyError")
       ELSE IF /\ type_of[Expr(1)] = PrimitiveType.Bool
               /\ type_of[Expr(2)] = PrimitiveType.Bool
               /\ ctx.op = "=="
       THEN Typed(PrimitiveType.Bool)
       ELSE IF /\ type_of[Expr(1)] = PrimitiveType.Int
               /\ type_of[Expr(2)] = PrimitiveType.Int
               /\ ctx.op = "=="
       THEN Typed(PrimitiveType.Bool)
       ELSE IF /\ type_of[Expr(1)] = PrimitiveType.Int
               /\ type_of[Expr(2)] = PrimitiveType.Int
               /\ ctx.op = "<"
       THEN Typed(PrimitiveType.Bool)
       ELSE IF /\ type_of[Expr(1)] = PrimitiveType.Int
               /\ type_of[Expr(2)] = PrimitiveType.Int
               /\ ctx.op = "<="
       THEN Typed(PrimitiveType.Bool)
       ELSE Faulted(Category.INVALID_BINARY_OP)

exitVariable ==
    /\ At(2, "exitVariable")
    /\ IF current_scope = None THEN Raise("AttributeError")
       ELSE IF ~Truthy(resolve_locally(scopes, current_scope, ctx.id))
       THEN Faulted(Category.UNDEFINED_NAME)
       \* the entry is what resolve_locally returns: the symbol
       ELSE Typed(resolve_locally(scopes, current_scope, ctx.id))

exitStringLiteral ==
    /\ At(2, "exitStringLiteral")
    /\ Typed(PrimitiveType.String)

exitBoolLiteral ==
    /\ At(2, "exitBoolLiteral")
    /\ Typed(PrimitiveType.Bool)

-----------------------------------------------------------------------------

Next ==
    \/ Define_enterMain
    \/ Define_exitMain
    \/ Define_enterFuncDef
    \/ Define_exitFuncDef
    \/ Define_other
    \/ Infer_init
    \/ Infer_enterMain
    \/ Infer_exitMain
    \/ Infer_enterFuncDef
    \/ Infer_exitFuncDef
    \/ exitFuncCall
    \/ exitReturn
    \/ exitVarDec
    \/ exitAssignment
    \/ exitWhile
    \/ exitIf
    \/ exitPrint
    \/ exitIntLiteral
    \/ exitNeg
    \/ exitParens
    \/ exitMulDiv
    \/ exitAddSub
    \/ exitCompare
    \/ exitVariable
    \/ exitStringLiteral
    \/ exitBoolLiteral

Spec == Init /\ [][Next]_vars

TypeOK ==
    /\ pass \in {1, 2}
    /\ pos \in 1..(Len(tree) + 1)
    /\ raised \in {"none", "AttributeError", "KeyError"}
    /\ current_scope \in 0..Len(scopes)

-----------------------------------------------------------------------------
(* Properties.  A node is named by the position of its exit event.         *)

\* The pass-2 handler of node n has returned.
Handled(n) == pass = 2 /\ n \in 1..Len(tree) /\ pos > n

\* The pass-2 handler of node n has run: it returned or it raised.
Reached(n) == Handled(n) \/ (pass = 2 /\ pos = n /\ raised # "none")

Nodes(h) == { n \in 1..Len(tree) : tree[n].h = h }

FaultCount(log, n, category) ==
    Cardinality({ i \in 1..Len(log) : log[i].node = n /\ log[i].category = category })

FaultsOn(log, n) == Cardinality({ i \in 1..Len(log) : log[i].node = n })

\* The type an annotation stands for: a symbol's declared type, or the type itself.
TypeOfValue(v) == IF v.tag = "Symbol" THEN v.type ELSE v

\* The construct (entry block or function definition) node n lies in.
EnclosingEnter(n) ==
    CHOOSE j \in 1..n :
        /\ tree[j].h \in {"enterMain", "enterFuncDef"}
        /\ \A k \in (j + 1)..n : tree[k].h \notin {"enterMain", "enterFuncDef"}

\* The return type a construct declares: Void for the entry block and for a
\* function without annotation.
DeclaredReturnType(j) ==
    IF tree[j].h = "enterMain" \/ tree[j].ty = "" THEN PrimitiveType.Void
    ELSE PrimitiveType[tree[j].ty]

\* The type a return statement returns: Void when it has no expression.
ReturnedType(n) ==
    IF tree[n].kids = <<>> THEN PrimitiveType.Void
    ELSE TypeOfValue(type_of[n - tree[n].kids[1]])

\* C1: a return statement handled by pass 2 has exactly one InvalidReturn
\* fault when the type it returns differs from the declared return type of
\* the construct it lies in, and none when the two are equal.
C1_ReturnFaultIffMismatch ==
    \A n \in Nodes("exitReturn") :
        Handled(n) =>
            FaultCount(error_log, n, Category.INVALID_RETURN)
                = IF ReturnedType(n) # DeclaredReturnType(EnclosingEnter(n)) THEN 1 ELSE 0

\* C2: the scope cursor of pass 2 is, after every event, the one pass 1 had
\* after the same event, and each pass ends with the cursor on the global
\* scope.
C2_CursorMirrorsPass1 ==
    /\ pass = 2 => current_scope = IF pos = 1 THEN global_scope ELSE cursor1[pos - 1]
    /\ pos > Len(tree) => current_scope = global_scope

\* C3: neither pass ever ends in an exception: every event of the tree is
\* handled, whatever faults the tree contains.
C3_NoHandlerRaises == raised = "none"

\* C4: a print statement handled by pass 2 has an UnprintableExpression
\* fault if and only if its operand is typed Void or ERROR.
C4_PrintFaultIffUnprintable ==
    \A n \in Nodes("exitPrint") :
        Handled(n) =>
            (FaultCount(error_log, n, Category.UNPRINTABLE_EXPRESSION) > 0
                <=> TypeOfValue(type_of[n - tree[n].kids[1]])
                        \in {PrimitiveType.Void, PrimitiveType.ERROR})

\* C5: right after a variable reference is handled, its annotation is the
\* declared PrimitiveType of the symbol of that name in the current scope, with
\* no fault, or, when the current scope has no such symbol, ERROR with exactly
\* one UndefinedName fault.
C5_VariableTypedByLocalSymbol ==
    (pass = 2 /\ pos > 1 /\ tree[pos - 1].h = "exitVariable") =>
        LET n   == pos - 1
            sym == resolve_locally(scopes, current_scope, tree[n].id)
        IN  IF sym # NoneValue
            THEN type_of[n] = sym.type /\ FaultsOn(error_log, n) = 0
            ELSE /\ type_of[n] = PrimitiveType.ERROR
                 /\ FaultCount(error_log, n, Category.UNDEFINED_NAME) = 1
                 /\ FaultsOn(error_log, n) = 1

\* The signature a function definition declares.
DeclaredSignature(j) ==
    FunctionType([i \in 1..Len(tree[j].params) |-> PrimitiveType[tree[j].params[i].ty]],
                 DeclaredReturnType(j))

\* C6: when pass 1 is over, every function definition f has its signature,
\* parameter types as PrimitiveTypes in declaration order and the declared
\* return type, registered under f in the scope enclosing f's body scope, and
\* not in the body scope.
C6_SignatureInEnclosingScope ==
    Finished(1) =>
        \A j \in Nodes("enterFuncDef") :
            LET f    == tree[j].id
                body == child_scope_named(scopes, global_scope, f)
                sym  == resolve_locally(scopes, scopes[body].enclosing_scope, f)
            IN  /\ sym # NoneValue
                /\ sym.type = DeclaredSignature(j)
                /\ resolve_locally(scopes, body, f) = NoneValue

\* The function definitions of the program that a call names.
IsFunction(n) == \E j \in Nodes("enterFuncDef") : tree[j].id = tree[n].id

CalleeDef(n) == CHOOSE j \in Nodes("enterFuncDef") : tree[j].id = tree[n].id

\* The call has as many arguments as its callee has parameters, each of the
\* type of the parameter at its place.
ArgsMatch(n) ==
    LET ps == tree[CalleeDef(n)].params
    IN  /\ Len(tree[n].kids) = Len(ps)
        /\ \A i \in 1..Len(ps) :
               TypeOfValue(type_of[n - tree[n].kids[i]]) = PrimitiveType[ps[i].ty]

\* C7: a call of a defined function with matching argument count and
\* argument types is handled without an InvalidCall fault and is typed with
\* the callee's declared return type.
C7_MatchingCallTyped ==
    \A n \in Nodes("exitFuncCall") :
        (Reached(n) /\ IsFunction(n) /\ ArgsMatch(n)) =>
            /\ Handled(n)
            /\ n \in DOMAIN type_of
            /\ type_of[n] = DeclaredReturnType(CalleeDef(n))
            /\ FaultCount(error_log, n, Category.INVALID_CALL) = 0

\* C8: a call of an undefined name, or with a wrong argument count or a
\* mistyped argument, is handled with exactly one InvalidCall fault and is
\* typed ERROR.
C8_BadCallFaulted ==
    \A n \in Nodes("exitFuncCall") :
        (Reached(n) /\ (~IsFunction(n) \/ ~ArgsMatch(n))) =>
            /\ Handled(n)
            /\ FaultCount(error_log, n, Category.INVALID_CALL) = 1
            /\ n \in DOMAIN type_of
            /\ type_of[n] = PrimitiveType.ERROR

\* C9: every node pass 2 has logged a diagnostic against is annotated ERROR.
C9_FaultedNodeTypedError ==
    \A i \in 1..Len(error_log) :
        /\ error_log[i].node \in DOMAIN type_of
        /\ type_of[error_log[i].node] = PrimitiveType.ERROR

\* The script 'var x : ty' followed by 'x = e'.
DeclareThenAssign(ty, e) == Main(VarDec("x", ty) \o Assignment("x", e))

\* C10: right after an assignment to a name of the current scope is handled:
\* no fault if the right-hand side has the symbol's declared type, else
\* exactly one fault, AssignToWrongType, and the node typed ERROR; and the
\* script 'var x : Int  x = true' ends with one fault in all and x still Int.
C10_AssignmentChecked ==
    /\ (pass = 2 /\ pos > 1 /\ tree[pos - 1].h = "exitAssignment") =>
           LET n == pos - 1
               x == resolve_locally(scopes, current_scope, tree[n].id)
           IN  x # NoneValue =>
                   IF TypeOfValue(type_of[n - tree[n].kids[1]]) = x.type
                   THEN FaultsOn(error_log, n) = 0
                   ELSE /\ FaultCount(error_log, n, Category.ASSIGN_TO_WRONG_TYPE) = 1
                        /\ FaultsOn(error_log, n) = 1
                        /\ n \in DOMAIN type_of
                        /\ type_of[n] = PrimitiveType.ERROR
    /\ (Finished(2) /\ tree = DeclareThenAssign("Int", BoolLiteral)) =>
           /\ Len(error_log) = 1
           /\ resolve_locally(scopes, child_scope_named(scopes, global_scope, "$main"), "x").type
                  = PrimitiveType.Int

-----------------------------------------------------------------------------
(* The operator table.                                                     *)

ExprNodes ==
    UNION { Nodes(h) : h \in {"exitIntLiteral", "exitStringLiteral", "exitBoolLiteral",
                              "exitParens", "exitNeg", "exitMulDiv", "exitAddSub",
                              "exitCompare"} }

OperatorNodes == UNION { Nodes(h) : h \in {"exitNeg", "exitMulDiv", "exitAddSub", "exitCompare"} }

\* The type of the i-th operand of node n.
OperandType(n, i) == TypeOfValue(type_of[n - tree[n].kids[i]])

\* The type the table gives node n, NoneValue when the operand types are not
\* a permitted combination for its operator.
TableType(n) ==
    LET h  == tree[n].h
        op == tree[n].op
    IN  IF h = "exitIntLiteral" THEN PrimitiveType.Int
        ELSE IF h = "exitStringLiteral" THEN PrimitiveType.String
        ELSE IF h = "exitBoolLiteral" THEN PrimitiveType.Bool
        ELSE IF h = "exitParens"
        THEN IF OperandType(n, 1) \in {PrimitiveType.Int, PrimitiveType.Bool, PrimitiveType.String}
             THEN OperandType(n, 1) ELSE NoneValue
        ELSE IF h = "exitNeg"
        THEN IF op = "-" /\ OperandType(n, 1) = PrimitiveType.Int THEN PrimitiveType.Int
             ELSE IF op = "!" /\ OperandType(n, 1) = PrimitiveType.Bool THEN PrimitiveType.Bool
             ELSE NoneValue
        ELSE LET a == OperandType(n, 1)
                 b == OperandType(n, 2)
             IN  IF op \in {"*", "/", "-", "+"} /\ a = PrimitiveType.Int /\ b = PrimitiveType.Int
                 THEN PrimitiveType.Int
                 ELSE IF op = "+" /\ a = PrimitiveType.String /\ b = PrimitiveType.String
                 THEN PrimitiveType.String
                 ELSE IF op = "==" /\ a = b /\ a \in {PrimitiveType.Int, PrimitiveType.Bool}
                 THEN PrimitiveType.Bool
                 ELSE IF op \in {"<", "<="} /\ a = PrimitiveType.Int /\ b = PrimitiveType.Int
                 THEN PrimitiveType.Bool
                 ELSE NoneValue

\* C11: a literal, parenthesized, unary or binary node handled by pass 2 whose
\* operand types are a permitted combination for its operator is annotated
\* with the table's result type and has no fault logged against it.
C11_PermittedOperandsTyped ==
    \A n \in ExprNodes :
        (Handled(n) /\ TableType(n) # NoneValue) =>
            /\ n \in DOMAIN type_of
            /\ type_of[n] = TableType(n)
            /\ FaultsOn(error_log, n) = 0

\* The fault category of an operator node.
OperatorFault(n) ==
    IF tree[n].h = "exitNeg" THEN Category.INVALID_NEGATION ELSE Category.INVALID_BINARY_OP

\* C12: a unary or binary operator node handled by pass 2 whose operand types
\* are not a permitted combination, operands typed ERROR included, is
\* annotated ERROR and has exactly one fault logged against it: InvalidNegation
\* for a unary operator, InvalidBinaryOp for a binary one.
C12_BadOperandsFaulted ==
    \A n \in OperatorNodes :
        (Handled(n) /\ TableType(n) = NoneValue) =>
            /\ n \in DOMAIN type_of
            /\ type_of[n] = PrimitiveType.ERROR
            /\ FaultCount(error_log, n, OperatorFault(n)) = 1
            /\ FaultsOn(error_log, n) = 1

\* C12 happens: '!!37' is analysed to the end, its outer node typed ERROR on
\* an operand typed ERROR, with one InvalidNegation fault on each operator.
C12_Witness ==
    /\ tree = Neg("!", Neg("!", IntLiteral))
    /\ Finished(2)
    /\ type_of[2] = PrimitiveType.ERROR
    /\ type_of[3] = PrimitiveType.ERROR
    /\ FaultCount(error_log, 3, Category.INVALID_NEGATION) = 1
    /\ Len(error_log) = 2

-----------------------------------------------------------------------------
(* Declarations.                                                           *)

\* The next event is a variable declaration whose name the current scope
\* already holds.
DuplicateVarDec ==
    /\ At(2, "exitVarDec")
    /\ current_scope # None
    /\ resolve_locally(scopes, current_scope, ctx.id) # NoneValue

\* C13: handling a variable declaration whose name is already in the current
\* scope's symbol map logs exactly one fault, DuplicateName on that
\* declaration, and leaves every scope as it was: no symbol is added or
\* replaced and the symbol of that name keeps its type, whatever type or
\* initializer the declaration states.
C13_DuplicateDeclarationKept ==
    [][DuplicateVarDec =>
          /\ raised' = "none"
          /\ pos' = pos + 1
          /\ error_log' = Append(error_log, [node |-> pos, category |-> Category.DUPLICATE_NAME])
          /\ scopes' = scopes
          /\ resolve_locally(scopes', current_scope, ctx.id)
                 = resolve_locally(scopes, current_scope, ctx.id)]_vars

\* C13 happens: 'var x : Int  var x : Bool = 5' is analysed to the end with
\* one DuplicateName fault on the second declaration and x still the only
\* symbol of the entry block, of type Int.
C13_Witness ==
    /\ tree = Main(VarDec("x", "Int") \o VarDecInit("x", "Bool", IntLiteral))
    /\ Finished(2)
    /\ error_log = << [node |-> 4, category |-> Category.DUPLICATE_NAME] >>
    /\ LET main == child_scope_named(scopes, global_scope, "$main")
       IN  scopes[main].symbols = << Symbol("x", PrimitiveType.Int, FALSE) >>

-----------------------------------------------------------------------------
(* Parameters.                                                             *)

\* Node n lies in the body of a function definition.
InFunctionBody(n) ==
    /\ \E j \in 1..n : tree[j].h \in {"enterMain", "enterFuncDef"}
    /\ tree[EnclosingEnter(n)].h = "enterFuncDef"

\* The parameters of the function whose definition is entered at event j, as
\* the symbols their declarations stand for.
DeclaredParameters(j) ==
    [i \in 1..Len(tree[j].params) |->
        Symbol(tree[j].params[i].id, PrimitiveType[tree[j].params[i].ty], TRUE)]

\* C15: a variable reference in a function body that names a parameter of
\* that function is handled by pass 2 without an UndefinedName fault and is
\* typed with the parameter's declared type; and once pass 2 has left a
\* function definition, parameters() of its body scope lists the parameters
\* in declaration order.
C15_ParametersDeclaredBeforeBody ==
    /\ \A n \in Nodes("exitVariable") :
           (Handled(n) /\ InFunctionBody(n)) =>
               LET ps == DeclaredParameters(EnclosingEnter(n))
               IN  \A i \in 1..Len(ps) :
                       ps[i].name = tree[n].id =>
                           /\ FaultCount(error_log, n, Category.UNDEFINED_NAME) = 0
                           /\ TypeOfValue(type_of[n]) = ps[i].type
    /\ \A j \in Nodes("enterFuncDef") :
           (\E e \in Nodes("exitFuncDef") : e > j /\ tree[e].id = tree[j].id /\ Handled(e)) =>
               parameters(scopes, child_scope_named(scopes, global_scope, tree[j].id))
                   = DeclaredParameters(j)

====
